---- MODULE Spec2Model ----
(***************************************************************************)
(* gellel/emojipedia: the self-describing command registry.                *)
(*                                                                         *)
(* Two packages build function descriptors from Go function values:        *)
(*   package x   (src/x/x.go)            Runner / Functions / Function     *)
(*   package cli (src/unnamed/part_001)  Program / Function / usage text   *)
(*                                                                         *)
(* A Go string is a sequence of one-character strings.  A Go function      *)
(* value is a record of what reflect and runtime report about it: its      *)
(* symbol name, the text of the source line FileLine points at, the        *)
(* reflected parameter types and the variadic flag.                        *)
(***************************************************************************)
EXTENDS Integers, Sequences, FiniteSets, TLC

VARIABLES runner, ret, call, out, disk

vars == <<runner, ret, call, out, disk>>

(***************************************************************************)
(* package strings, package path/filepath, package regexp                  *)
(***************************************************************************)
LowerLetters == <<"a","b","c","d","e","f","g","h","i","j","k","l","m","n","o","p","q","r","s","t","u","v","w","x","y","z">>

UpperLetters == <<"A","B","C","D","E","F","G","H","I","J","K","L","M","N","O","P","Q","R","S","T","U","V","W","X","Y","Z">>

IsUpperChar(c) == \E i \in 1..Len(UpperLetters) : UpperLetters[i] = c

IsLowerChar(c) == \E i \in 1..Len(LowerLetters) : LowerLetters[i] = c

ToUpperChar(c) ==
  IF IsLowerChar(c)
  THEN UpperLetters[CHOOSE i \in 1..Len(LowerLetters) : LowerLetters[i] = c]
  ELSE c

ToLowerChar(c) ==
  IF IsUpperChar(c)
  THEN LowerLetters[CHOOSE i \in 1..Len(UpperLetters) : UpperLetters[i] = c]
  ELSE c

\* strings.ToUpper
ToUpper(s) == [i \in 1..Len(s) |-> ToUpperChar(s[i])]

\* strings.ToLower
ToLower(s) == [i \in 1..Len(s) |-> ToLowerChar(s[i])]

\* strings.Index(s, c) for a one-character c: 0-based, -1 when absent
Index(s, c) ==
  IF \A i \in 1..Len(s) : s[i] # c
  THEN -1
  ELSE (CHOOSE i \in 1..Len(s) : s[i] = c /\ \A j \in 1..(i - 1) : s[j] # c) - 1

\* s[from:] with a 0-based from
SliceFrom(s, from) == SubSeq(s, from + 1, Len(s))

\* strings.Split(s, sep) for a one-character sep
RECURSIVE Split(_, _)
Split(s, sep) ==
  LET i == Index(s, sep)
  IN IF i = -1
     THEN <<s>>
     ELSE <<SubSeq(s, 1, i)>> \o Split(SliceFrom(s, i + 1), sep)

\* strings.Join(parts, sep)
RECURSIVE Join(_, _)
Join(parts, sep) ==
  IF Len(parts) = 0 THEN <<>>
  ELSE IF Len(parts) = 1 THEN parts[1]
  ELSE parts[1] \o sep \o Join(Tail(parts), sep)

\* strings.NewReplacer("[", "", "]", "").Replace
Replace(s) == SelectSeq(s, LAMBDA c : c # "[" /\ c # "]")

IsSpaceChar(c) == c \in {" ", "\t", "\n", "\r"}

\* strings.TrimSpace
RECURSIVE TrimSpace(_)
TrimSpace(s) ==
  IF Len(s) = 0 THEN s
  ELSE IF IsSpaceChar(s[1]) THEN TrimSpace(Tail(s))
  ELSE IF IsSpaceChar(s[Len(s)]) THEN TrimSpace(SubSeq(s, 1, Len(s) - 1))
  ELSE s

\* filepath.Base on a slash-separated path
RECURSIVE Base(_)
Base(path) ==
  IF Len(path) = 0 THEN <<".">>
  ELSE IF path[Len(path)] = "/"
       THEN IF Len(path) = 1 THEN <<"/">> ELSE Base(SubSeq(path, 1, Len(path) - 1))
  ELSE LET parts == Split(path, "/") IN parts[Len(parts)]

IsParen(c) == c \in {"(", ")"}

\* the places where `\(([^()]+)\)` matches: an opening parenthesis at i, one or
\* more characters that are no parenthesis, a closing parenthesis at j
ReMatches(s) ==
  {m \in (1..Len(s)) \X (1..Len(s)) :
     /\ m[1] + 1 < m[2]
     /\ s[m[1]] = "("
     /\ s[m[2]] = ")"
     /\ \A k \in (m[1] + 1)..(m[2] - 1) : ~IsParen(s[k])}

\* re.FindAllStringSubmatch(s, 1): the leftmost match's group, if any
FindSubmatch(s) ==
  IF ReMatches(s) = {}
  THEN [found |-> FALSE, group |-> <<>>]
  ELSE LET m == CHOOSE m \in ReMatches(s) : \A o \in ReMatches(s) : m[1] <= o[1]
       IN [found |-> TRUE, group |-> SubSeq(s, m[1] + 1, m[2] - 1)]

\* regexp `[A-Z]+[^A-Z]*|[^A-Z]+`, FindAllString(s, -1): each token is a run of
\* upper-case letters followed by a run of other characters, or (at the start
\* only) a run of other characters
RECURSIVE RunLen(_, _)
RunLen(s, upper) ==
  IF Len(s) = 0 \/ IsUpperChar(s[1]) # upper THEN 0
  ELSE 1 + RunLen(Tail(s), upper)

RECURSIVE CamelTokens(_)
CamelTokens(s) ==
  IF Len(s) = 0 THEN <<>>
  ELSE LET u == RunLen(s, TRUE)
           n == u + RunLen(SliceFrom(s, u), FALSE)
       IN <<SubSeq(s, 1, n)>> \o CamelTokens(SliceFrom(s, n))

(***************************************************************************)
(* Go function values: what reflect.TypeOf, runtime.FuncForPC and the      *)
(* source file say about each                                              *)
(*   name      runtime.FuncForPC(pointer).Name()                           *)
(*   readable  whether ioutil.ReadFile(file) succeeds                      *)
(*   text      the text of line `line` of `file` (FileLine(pointer))       *)
(*   types     reflect.Type.In(i): String() and Kind().String()            *)
(*   variadic  reflect.Type.IsVariadic()                                   *)
(*   results   reflect.Type.Out(i)                                         *)
(*   params    the parameter names the declaration gives (no code reads    *)
(*             them: they are what the descriptors are meant to recover)   *)
(***************************************************************************)
tAny == [str |-> <<"[","]","i","n","t","e","r","f","a","c","e"," ","{","}">>, kind |-> "slice"]

tInt == [str |-> <<"i","n","t">>, kind |-> "int"]

tString == [str |-> <<"s","t","r","i","n","g">>, kind |-> "string"]

tBool == [str |-> <<"b","o","o","l">>, kind |-> "bool"]

tStrings == [str |-> <<"[","]","s","t","r","i","n","g">>, kind |-> "slice"]

tCallback == [str |-> <<"f","u","n","c","(","i","n","t",","," ","*","x",".","A","r","g","u","m","e","n","t",")">>, kind |-> "func"]

Decl(name, params, text, types, variadic, results, readable) ==
  [name |-> name, params |-> params, text |-> text, types |-> types,
   variadic |-> variadic, results |-> results, readable |-> readable]

\* the function values handed to the registries, by entry address (Pointer)
Decls ==
  << \* 1: func Run(opts ...interface{})
     Decl(<<"g","i","t","h","u","b",".","c","o","m","/","g","e","l","l","e","l","/","e","m","o","j","i","p","e","d","i","a","/","m","a","i","n",".","R","u","n">>, <<<<"o","p","t","s">>>>,
          <<"f","u","n","c"," ","R","u","n","(","o","p","t","s"," ",".",".",".","i","n","t","e","r","f","a","c","e","{","}",")"," ","{">>, <<tAny>>, TRUE, <<>>, TRUE),
     \* 2: another package's Run, a scalar before the variadic slot
     Decl(<<"g","i","t","h","u","b",".","c","o","m","/","g","e","l","l","e","l","/","e","m","o","j","i","p","e","d","i","a","/","c","m","d",".","R","u","n">>, <<<<"a">>, <<"o","p","t","s">>>>,
          <<"f","u","n","c"," ","R","u","n","(","a"," ","i","n","t",","," ","o","p","t","s"," ",".",".",".","i","n","t","e","r","f","a","c","e","{","}",")"," ","{">>, <<tInt, tAny>>, TRUE, <<>>, TRUE),
     \* 3: fixed arity, named parameters
     Decl(<<"g","i","t","h","u","b",".","c","o","m","/","g","e","l","l","e","l","/","e","m","o","j","i","p","e","d","i","a","/","m","a","i","n",".","B","u","i","l","d">>, <<<<"t","a","r","g","e","t">>, <<"f","o","r","c","e">>>>,
          <<"f","u","n","c"," ","B","u","i","l","d","(","t","a","r","g","e","t"," ","s","t","r","i","n","g",","," ","f","o","r","c","e"," ","b","o","o","l",")"," ","{">>, <<tString, tBool>>, FALSE, <<>>, TRUE),
     \* 4: no parameters, no results
     Decl(<<"g","i","t","h","u","b",".","c","o","m","/","g","e","l","l","e","l","/","e","m","o","j","i","p","e","d","i","a","/","m","a","i","n",".","L","i","s","t","A","l","l">>, <<>>,
          <<"f","u","n","c"," ","L","i","s","t","A","l","l","(",")"," ","{">>, <<>>, FALSE, <<>>, TRUE),
     \* 5: no parameters, a named result
     Decl(<<"g","i","t","h","u","b",".","c","o","m","/","g","e","l","l","e","l","/","e","m","o","j","i","p","e","d","i","a","/","m","a","i","n",".","H","a","s","A","n","y">>, <<>>,
          <<"f","u","n","c"," ","H","a","s","A","n","y","(",")"," ","(","o","k"," ","b","o","o","l",")"," ","{">>, <<>>, FALSE, <<tBool>>, TRUE),
     \* 6: one parameter of func type
     Decl(<<"g","i","t","h","u","b",".","c","o","m","/","g","e","l","l","e","l","/","e","m","o","j","i","p","e","d","i","a","/","m","a","i","n",".","E","a","c","h">>, <<<<"f">>>>,
          <<"f","u","n","c"," ","E","a","c","h","(","f"," ","f","u","n","c","(","i"," ","i","n","t",","," ","a"," ","*","A","r","g","u","m","e","n","t",")",")"," ","{">>, <<tCallback>>, FALSE, <<>>, TRUE),
     \* 7: a declaration that continues on the next lines
     Decl(<<"g","i","t","h","u","b",".","c","o","m","/","g","e","l","l","e","l","/","e","m","o","j","i","p","e","d","i","a","/","m","a","i","n",".","M","a","k","e">>, <<<<"t","a","r","g","e","t">>, <<"f","o","r","c","e">>>>,
          <<"f","u","n","c"," ","M","a","k","e","(">>, <<tString, tBool>>, FALSE, <<>>, TRUE),
     \* 8: a lower-case name, one slice parameter
     Decl(<<"g","i","t","h","u","b",".","c","o","m","/","g","e","l","l","e","l","/","e","m","o","j","i","p","e","d","i","a","/","m","a","i","n",".","r","u","n">>, <<<<"n","a","m","e","s">>>>,
          <<"f","u","n","c"," ","r","u","n","(","n","a","m","e","s"," ","[","]","s","t","r","i","n","g",")"," ","{">>, <<tStrings>>, FALSE, <<>>, TRUE),
     \* 9: a function literal inside Outer
     Decl(<<"g","i","t","h","u","b",".","c","o","m","/","g","e","l","l","e","l","/","e","m","o","j","i","p","e","d","i","a","/","m","a","i","n",".","O","u","t","e","r",".","f","u","n","c","1">>, <<<<"n","a","m","e","s">>>>,
          <<"\t","v","i","s","i","t"," ",":","="," ","f","u","n","c","(","n","a","m","e","s"," ","[","]","s","t","r","i","n","g",")"," ","{">>, <<tStrings>>, FALSE, <<>>, TRUE),
     \* 10: a function whose source file is gone at run time
     Decl(<<"g","i","t","h","u","b",".","c","o","m","/","g","e","l","l","e","l","/","e","m","o","j","i","p","e","d","i","a","/","m","a","i","n",".","G","o","n","e">>, <<<<"n","a","m","e">>>>,
          <<>>, <<tString>>, FALSE, <<>>, FALSE) >>

Pointers == 1..Len(Decls)

\* reflect.TypeOf(f).NumIn()
NumIn(f) == Len(Decls[f].types)

(***************************************************************************)
(* package x (src/x/x.go)                                                  *)
(***************************************************************************)
x_NewArgument(name, value, position, pointer, variadic, kind) ==
  [Address |-> pointer,
   Kind |-> kind,
   Pointer |-> Index(value, "*") # -1,
   Position |-> position,
   Slice |-> (kind = "slice"),
   Name |-> name,
   Value |-> Replace(value),
   Variadic |-> variadic]

\* reflection.In(i) panics when i is no parameter index of the function
x_NewArguments(reflection, pointer, variadic, parameters) ==
  IF Len(parameters) > Len(reflection)
  THEN [panic |-> TRUE, val |-> <<>>]
  ELSE [panic |-> FALSE,
        val |-> [i \in 1..Len(parameters) |->
                   x_NewArgument(Split(parameters[i], " ")[1], reflection[i].str,
                                 i - 1, pointer, variadic, reflection[i].kind)]]

\* ioutil.ReadFile fails: panic(err)
x_NewParameters(readable, text) ==
  IF ~readable
  THEN [panic |-> TRUE, val |-> <<>>]
  ELSE LET matches == FindSubmatch(text)
       IN [panic |-> FALSE,
           val |-> IF matches.found THEN Split(matches.group, ",") ELSE <<>>]

\* for i > -1 { name = name[(i + 1):]; i = strings.Index(name, ".") }
RECURSIVE x_StripQualifiers(_)
x_StripQualifiers(name) ==
  LET i == Index(name, ".")
  IN IF i > -1 THEN x_StripQualifiers(SliceFrom(name, i + 1)) ELSE name

x_NewDeconstruct(f) ==
  LET parameters == x_NewParameters(Decls[f].readable, Decls[f].text)
  IN [panic |-> parameters.panic,
      val |-> [Parameters |-> parameters.val,
               Pointer |-> f,
               Name |-> x_StripQualifiers(Base(Decls[f].name)),
               Type |-> Decls[f].types,
               Variadic |-> Decls[f].variadic]]

NilFunction == [Nil |-> TRUE]

\* the Function literal NewFunction returns, given its two locals
x_FunctionOf(f, deconstruct, arguments) ==
  IF deconstruct.panic \/ arguments.panic
  THEN [panic |-> TRUE, val |-> NilFunction]
  ELSE [panic |-> FALSE,
        val |-> [Arguments |-> arguments.val,
                 Empty |-> (Len(arguments.val) = 0),
                 F |-> f,
                 Length |-> Len(arguments.val),
                 Pointer |-> deconstruct.val.Pointer,
                 Name |-> deconstruct.val.Name,
                 Variadic |-> deconstruct.val.Variadic]]

\* arguments := NewArguments(deconstruct.Type, deconstruct.Pointer, ...)
x_ArgumentsOf(deconstruct) ==
  IF deconstruct.panic
  THEN [panic |-> TRUE, val |-> <<>>]
  ELSE x_NewArguments(deconstruct.val.Type, deconstruct.val.Pointer,
                      deconstruct.val.Variadic, deconstruct.val.Parameters)

x_NewFunction(f) ==
  x_FunctionOf(f, x_NewDeconstruct(f), x_ArgumentsOf(x_NewDeconstruct(f)))

\* the descriptor x.NewFunction builds for each function value
x_Function == [f \in Pointers |-> x_NewFunction(f)]

\* a registry write that keeps an entry already present
MapSet_KeepFirst(functions, key, n) ==
  [k \in DOMAIN functions \cup {key} |->
     IF k \in DOMAIN functions THEN functions[k] ELSE n]

\* (*functions)[key] = n
MapSet(functions, key, n) ==
  [k \in DOMAIN functions \cup {key} |-> IF k = key THEN n ELSE functions[k]]

EmptyFunctions == [k \in {} |-> NilFunction]

\* n := NewFunction(x); (*functions)[strings.ToUpper(n.Name)] = n
x_Register(functions, n) == MapSet(functions, ToUpper(n.Name), n)

RECURSIVE x_NewFunctionsLoop(_, _)
x_NewFunctionsLoop(functions, f) ==
  IF Len(f) = 0
  THEN [panic |-> FALSE, val |-> functions]
  ELSE IF x_Function[f[1]].panic
  THEN [panic |-> TRUE, val |-> functions]
  ELSE x_NewFunctionsLoop(x_Register(functions, x_Function[f[1]].val), Tail(f))

x_NewFunctions(f) == x_NewFunctionsLoop(EmptyFunctions, f)

\* &Runner{Functions: ...}
x_RunnerOf(functions) ==
  [panic |-> functions.panic, val |-> [Functions |-> functions.val]]

x_NewRunner(f) == x_RunnerOf(x_NewFunctions(f))

Argument_Is(argument, key) == ToUpper(argument.Value) = ToUpper(key)

Arguments_Bounds(arguments, i) == (i > -1) /\ (i < Len(arguments))

Arguments_Get(arguments, i) ==
  IF Arguments_Bounds(arguments, i)
  THEN [argument |-> arguments[i + 1], ok |-> TRUE]
  ELSE [argument |-> [Nil |-> TRUE], ok |-> FALSE]

\* a lookup that does not upper-case its key
Functions_Get_CaseSensitive(functions, key) ==
  IF key \in DOMAIN functions
  THEN [function |-> functions[key], ok |-> TRUE]
  ELSE [function |-> NilFunction, ok |-> FALSE]

Functions_Get(functions, key) ==
  IF ToUpper(key) \in DOMAIN functions
  THEN [function |-> functions[ToUpper(key)], ok |-> TRUE]
  ELSE [function |-> NilFunction, ok |-> FALSE]

Functions_Has(functions, key) == ToUpper(key) \in DOMAIN functions

Functions_Contains(functions, function) == Functions_Has(functions, function.Name)

Functions_Fetch(functions, key) == Functions_Get(functions, key).function

\* function.F.(func(i ...interface{})): the assertion panics on any other type
IsVariadicAny(f) ==
  /\ Decls[f].types = <<tAny>>
  /\ Decls[f].variadic
  /\ Decls[f].results = <<>>

\* `function, ok := ...` assigns the result ok; `argument, ok := ...` declares a
\* new ok in the scope of the if statement, and `ok = argument.Is(...)`
\* assigns that inner one; `return f, ok` returns the outer ok.  f = 0 is nil.
Runner_GetOf(outer, inner) ==
  IF outer.ok /\ outer.function.Variadic
  THEN IF inner.ok /\ Argument_Is(inner.argument, <<"i","n","t","e","r","f","a","c","e">>)
       THEN IF IsVariadicAny(outer.function.F)
            THEN [panic |-> FALSE, f |-> outer.function.F, ok |-> outer.ok]
            ELSE [panic |-> TRUE, f |-> 0, ok |-> FALSE]
       ELSE [panic |-> FALSE, f |-> 0, ok |-> outer.ok]
  ELSE [panic |-> FALSE, f |-> 0, ok |-> outer.ok]

\* function.Arguments.Get(0), reached only when ok && function.Variadic
Runner_First(outer) ==
  IF outer.ok
  THEN Arguments_Get(outer.function.Arguments, 0)
  ELSE [argument |-> [Nil |-> TRUE], ok |-> FALSE]

Runner_Get(r, key) ==
  Runner_GetOf(Functions_Get(r.Functions, key),
               Runner_First(Functions_Get(r.Functions, key)))

(***************************************************************************)
(* package cli (src/unnamed/part_001)                                      *)
(***************************************************************************)
lineLength == 79

cli_NewArgument(i, pointer, parameter, t) ==
  LET properties == Decls[t].types[i + 1]
      substrings == Split(TrimSpace(parameter), " ")
  IN [Kind |-> properties.kind,
      Parameter |-> parameter,
      Pointer |-> pointer,
      Position |-> i,
      Name |-> substrings[1],
      Slice |-> (properties.kind = "slice"),
      Value |-> Replace(properties.str),
      Varadict |-> Decls[t].variadic]

\* name = name[(strings.Index(name, ".") + 1):], then the camel-case tokens
\* joined by "-"; strings.ToLower(name) when the Function is built
cli_Name(symbol) ==
  LET base == Base(symbol)
      name == SliceFrom(base, Index(base, ".") + 1)
      substrings == CamelTokens(name)
  IN ToLower(IF Len(substrings) # 0 THEN Join(substrings, <<"-">>) ELSE name)

\* parameters[i] panics when the line names fewer parameters than NumIn.
\* The Line and Path fields are left out: nothing reads them.
cli_NewFunction(fn) ==
  LET matches == FindSubmatch(Decls[fn].text)
      parameters == Split(matches.group, ",")
  IN IF ~Decls[fn].readable
     THEN [panic |-> TRUE, val |-> NilFunction]
     ELSE IF matches.found /\ NumIn(fn) > Len(parameters)
     THEN [panic |-> TRUE, val |-> NilFunction]
     ELSE [panic |-> FALSE,
           val |-> [Arguments |->
                      IF matches.found
                      THEN [i \in 1..NumIn(fn) |->
                              cli_NewArgument(i - 1, fn, parameters[i], fn)]
                      ELSE <<>>,
                    F |-> fn,
                    Pointer |-> fn,
                    Name |-> cli_Name(Decls[fn].name),
                    Varadict |-> Decls[fn].variadic]]

\* the descriptor cli.NewFunction builds for each function value
cli_Function == [fn \in Pointers |-> cli_NewFunction(fn)]

GetArgumentString(argument) ==
  IF argument.Varadict
  THEN argument.Name \o <<" ","[",".",".",".">> \o argument.Value \o <<"]">>
  ELSE IF argument.Slice
  THEN argument.Name \o <<"=","[",".",".",".">> \o argument.Value \o <<"]">>
  ELSE argument.Name \o <<"=","<">> \o argument.Value \o <<">">>

GetFunctionString(function) ==
  LET substrings == [i \in 1..Len(function.Arguments) |->
                       ToLower(GetArgumentString(function.Arguments[i]))]
      usage == Join(substrings, <<","," ">>)
  IN IF Len(usage) # 0
     THEN function.Name \o <<" ","[">> \o usage \o <<"]">>
     ELSE <<"-","-">> \o function.Name

\* a loop that breaks only once the counter has passed the budget
RECURSIVE WrapDescriptionLoop_Strict(_, _, _)
WrapDescriptionLoop_Strict(words, cursor, about) ==
  IF Len(words) = 0
  THEN about
  ELSE LET next == cursor + Len(words[1]) + 1
           text == about \o words[1] \o <<" ">>
       IN IF next > lineLength
          THEN WrapDescriptionLoop_Strict(Tail(words), 0, text \o <<"\n">>)
          ELSE WrapDescriptionLoop_Strict(Tail(words), next, text)

\* a loop that puts the line break in place of the space
RECURSIVE WrapDescriptionLoop_BreakForSpace(_, _, _)
WrapDescriptionLoop_BreakForSpace(words, cursor, about) ==
  IF Len(words) = 0
  THEN about
  ELSE LET next == cursor + Len(words[1]) + 1
       IN IF next >= lineLength
          THEN WrapDescriptionLoop_BreakForSpace(Tail(words), 0,
                                                 about \o words[1] \o <<"\n">>)
          ELSE WrapDescriptionLoop_BreakForSpace(Tail(words), next,
                                                 about \o words[1] \o <<" ">>)

RECURSIVE WrapDescriptionLoop(_, _, _)
WrapDescriptionLoop(words, cursor, about) ==
  IF Len(words) = 0
  THEN about
  ELSE LET next == cursor + Len(words[1]) + 1
           text == about \o words[1] \o <<" ">>
       IN IF next >= lineLength
          THEN WrapDescriptionLoop(Tail(words), 0, text \o <<"\n">>)
          ELSE WrapDescriptionLoop(Tail(words), next, text)

WrapDescription(paragraph) == WrapDescriptionLoop(Split(paragraph, " "), 0, <<>>)

\* the first loop of WrapFunction: the options of each line
RECURSIVE WrapFunctionLoop(_, _, _)
WrapFunctionLoop(functions, paragraphs, offset) ==
  IF Len(functions) = 0
  THEN paragraphs
  ELSE LET i == Len(paragraphs)
           option == <<"[">> \o GetFunctionString(functions[1]) \o <<"]">>
           cursor == Len(Join(paragraphs[i], <<" ">>)) + offset + Len(option)
       IN IF cursor >= lineLength
          THEN WrapFunctionLoop(Tail(functions), Append(paragraphs, <<option>>), offset)
          ELSE WrapFunctionLoop(Tail(functions),
                                [paragraphs EXCEPT ![i] = Append(@, option)], offset)

\* a padding loop that stops one short
Padding_Short(offset) == [j \in 1..(offset - 1) |-> " "]

\* for j < offset { padding = padding + " " }
Padding(offset) == [j \in 1..offset |-> " "]

\* the second loop of WrapFunction: "\n %s%s" per continuation line
RECURSIVE WrapFunctionLines(_, _)
WrapFunctionLines(paragraphs, offset) ==
  IF Len(paragraphs) = 0
  THEN <<>>
  ELSE <<"\n", " ">> \o Padding(offset) \o Join(paragraphs[1], <<" ">>)
       \o WrapFunctionLines(Tail(paragraphs), offset)

\* a WrapFunction that forgets the continuation lines
WrapFunction_FirstLineOnly(name, functions) ==
  LET prefix == <<"u","s","a","g","e",":"," ">> \o name
      offset == Len(prefix)
      paragraphs == WrapFunctionLoop(functions, << <<>> >>, offset)
  IN prefix \o <<" ","[">> \o Join(paragraphs[1], <<" ">>) \o <<"]">>

WrapFunction(name, functions) ==
  LET prefix == <<"u","s","a","g","e",":"," ">> \o name
      offset == Len(prefix)
      paragraphs == WrapFunctionLoop(functions, << <<>> >>, offset)
  IN prefix \o <<" ","[">> \o Join(paragraphs[1], <<" ">>)
     \o WrapFunctionLines(Tail(paragraphs), offset) \o <<"]">>

WrapUse(name, description, functions) ==
  WrapDescription(description) \o <<"\n", "\n">> \o WrapFunction(name, functions)

NoProgram == [Nil |-> TRUE]

\* NewFunction panics: NewProgram does not return
cli_NewProgram(name, description, functions) ==
  IF \E i \in 1..Len(functions) : cli_Function[functions[i]].panic
  THEN [panic |-> TRUE, val |-> NoProgram]
  ELSE LET f == [i \in 1..Len(functions) |-> cli_Function[functions[i]].val]
       IN [panic |-> FALSE,
           val |-> [Description |-> description,
                    Functions |-> f,
                    Name |-> name,
                    Use |-> WrapUse(name, description, f)]]

(***************************************************************************)
(* Bounds and inputs                                                       *)
(***************************************************************************)
MaxFunctions == 2

MaxWords == 2

FunctionSeqs == UNION {[1..n -> Pointers] : n \in 0..MaxFunctions}

LookupKeys == {<<"r","u","n">>, <<"R","u","n">>, <<"r","U","N">>, <<"B","U","I","L","D">>, <<"l","i","s","t","a","l","l">>, <<"f","u","n","c","1">>, <<"n","o","p","e">>}

\* a descriptor that shares nothing but its name with a registered one
BareFunction(name) ==
  [Arguments |-> <<>>, Empty |-> TRUE, F |-> 0, Length |-> 0, Pointer |-> 0,
   Name |-> name, Variadic |-> FALSE]

ContainsArgs ==
  {x_Function[f].val : f \in {g \in Pointers : ~x_Function[g].panic}}
    \cup {BareFunction(k) : k \in LookupKeys}

Names == {<<"e","m","o","j","i","p","e","d","i","a">>, <<"e","m","o","j","i","p","e","d","i","a","-","f","i","l","e","s","-","s","u","b","c","a","t","e","g","o","r","i","e","s","-","m","a","k","e">>}

Descriptions ==
  {<<>>,
   <<"l","i","s","t"," ","e","m","o","j","i">>,
   <<"e","m","o","j","i","p","e","d","i","a"," ","b","u","i","l","d","s"," ","a","n","d"," ","l","i","s","t","s"," ","t","h","e"," ","e","m","o","j","i",","," ","c","a","t","e","g","o","r","i","e","s",","," ","s","u","b","c","a","t","e","g","o","r","i","e","s"," ","a","n","d"," ","k","e","y","w","o","r","d","s"," ","p","u","b","l","i","s","h","e","d"," ","b","y"," ","u","n","i","c","o","d","e",".","o","r","g">>}

Rep(c, n) == [i \in 1..n |-> c]

Words == {<<>>, <<"t","o">>, Rep("a", 38), Rep("b", 78), Rep("c", 80)}

Paragraphs ==
  {Join(w, <<" ">>) : w \in UNION {[1..n -> Words] : n \in 1..MaxWords}}

(***************************************************************************)
(* The registry of package x: a single-threaded caller makes one call at   *)
(* a time and takes its result before the next                             *)
(***************************************************************************)
\* no directory and no file
NoDisk == [dirs |-> {}, files |-> <<>>]

NoRet ==
  [op |-> "none", args |-> <<>>, key |-> <<>>, arg |-> NilFunction,
   function |-> NilFunction, ok |-> FALSE, f |-> 0]

NoCall == [op |-> "none"]

NoOut == [done |-> FALSE, panic |-> FALSE, val |-> <<>>]

Idle == ret.op = "none"

Init ==
  /\ runner = x_NewRunner(<<>>).val
  /\ ret = NoRet
  /\ call = NoCall
  /\ out = NoOut
  /\ disk = NoDisk

\* *runner = *NewRunner(f...): a panic in NewRunner leaves the runner as it was
DoRunnerSet(f) ==
  \E r \in {x_NewRunner(f)} :
     /\ Idle
     /\ runner' = IF r.panic THEN runner ELSE r.val
     /\ ret' = [NoRet EXCEPT !.op = IF r.panic THEN "panic" ELSE "Runner.Set",
                             !.args = f]
     /\ UNCHANGED <<call, out, disk>>

\* *functions = *NewFunctions(f...) on the runner's Functions
DoFunctionsSet(f) ==
  \E r \in {x_NewFunctions(f)} :
     /\ Idle
     /\ runner' = IF r.panic THEN runner ELSE [runner EXCEPT !.Functions = r.val]
     /\ ret' = [NoRet EXCEPT !.op = IF r.panic THEN "panic" ELSE "Functions.Set",
                             !.args = f]
     /\ UNCHANGED <<call, out, disk>>

DoFunctionsGet(key) ==
  \E r \in {Functions_Get(runner.Functions, key)} :
     /\ Idle
     /\ ret' = [NoRet EXCEPT !.op = "Functions.Get", !.key = key,
                             !.function = r.function, !.ok = r.ok]
     /\ UNCHANGED <<runner, call, out, disk>>

DoFunctionsFetch(key) ==
  /\ Idle
  /\ ret' = [NoRet EXCEPT !.op = "Functions.Fetch", !.key = key,
                          !.function = Functions_Fetch(runner.Functions, key)]
  /\ UNCHANGED <<runner, call, out, disk>>

DoFunctionsHas(key) ==
  /\ Idle
  /\ ret' = [NoRet EXCEPT !.op = "Functions.Has", !.key = key,
                          !.ok = Functions_Has(runner.Functions, key)]
  /\ UNCHANGED <<runner, call, out, disk>>

DoFunctionsContains(function) ==
  /\ Idle
  /\ ret' = [NoRet EXCEPT !.op = "Functions.Contains", !.arg = function,
                          !.ok = Functions_Contains(runner.Functions, function)]
  /\ UNCHANGED <<runner, call, out, disk>>

DoRunnerGet(key) ==
  \E r \in {Runner_Get(runner, key)} :
     /\ Idle
     /\ ret' = [NoRet EXCEPT !.op = IF r.panic THEN "panic" ELSE "Runner.Get",
                             !.key = key, !.f = r.f, !.ok = r.ok]
     /\ UNCHANGED <<runner, call, out, disk>>

\* the caller has taken the result
Return ==
  /\ ~Idle
  /\ ret' = NoRet
  /\ UNCHANGED <<runner, call, out, disk>>

Next ==
  \/ \E f \in FunctionSeqs : DoRunnerSet(f)
  \/ \E f \in FunctionSeqs : DoFunctionsSet(f)
  \/ \E key \in LookupKeys : DoFunctionsGet(key)
  \/ \E key \in LookupKeys : DoFunctionsFetch(key)
  \/ \E key \in LookupKeys : DoFunctionsHas(key)
  \/ \E function \in ContainsArgs : DoFunctionsContains(function)
  \/ \E key \in LookupKeys : DoRunnerGet(key)
  \/ Return

Spec == Init /\ [][Next]_vars

(***************************************************************************)
(* Lookups by several callers on a registry whose construction is          *)
(* complete.  runner is the shared registry, ret keeps the registry as     *)
(* construction left it, call[c] is caller c's position and locals, out[c] *)
(* the result it was handed.                                               *)
(***************************************************************************)
Callers == {1, 2}

Lookups ==
  {"Functions.Get", "Functions.Has", "Functions.Fetch", "Functions.Contains",
   "Runner.Get"}

ConcurrentKeys == {<<"r","u","n">>, <<"B","U","I","L","D">>, <<"n","o","p","e">>}

NoLookup ==
  [op |-> "none", key |-> <<>>, pc |-> "idle", function |-> NilFunction,
   ok |-> FALSE]

NoResult == [function |-> NilFunction, ok |-> FALSE, f |-> 0, panic |-> FALSE]

\* a map read that removes the entry it reads
AfterRead_Evict(functions, key) ==
  [k \in DOMAIN functions \ {ToUpper(key)} |-> functions[k]]

\* (*functions)[strings.ToUpper(key)] is an index expression: it reads the map
\* and leaves it as it is
AfterRead(functions, key) == functions

InitConcurrent ==
  /\ runner \in {x_NewRunner(f).val :
                   f \in {g \in FunctionSeqs : ~x_NewRunner(g).panic}}
  /\ ret = [registry |-> runner]
  /\ call = [c \in Callers |-> NoLookup]
  /\ out = [c \in Callers |-> NoResult]
  /\ disk = NoDisk

\* caller c enters one of the lookups; Contains is given a descriptor and
\* passes its Name on to Has
Invoke(c, op, key) ==
  /\ call[c].pc = "idle"
  /\ call' = [call EXCEPT ![c] = [NoLookup EXCEPT !.op = op, !.key = key,
                                                  !.pc = "called"]]
  /\ UNCHANGED <<runner, ret, out, disk>>

\* function, ok = (*functions)[strings.ToUpper(key)]
ReadMap(c) ==
  \E r \in {Functions_Get(runner.Functions, call[c].key)} :
     /\ call[c].pc = "called"
     /\ call' = [call EXCEPT ![c].pc = "read", ![c].function = r.function,
                             ![c].ok = r.ok]
     /\ runner' = [runner EXCEPT !.Functions = AfterRead(@, call[c].key)]
     /\ UNCHANGED <<ret, out, disk>>

\* what the lookup returns from the locals the map read filled
ResultOf(op, local) ==
  IF op = "Runner.Get"
  THEN [NoResult EXCEPT !.f = Runner_GetOf(local, Runner_First(local)).f,
                        !.ok = Runner_GetOf(local, Runner_First(local)).ok,
                        !.panic = Runner_GetOf(local, Runner_First(local)).panic]
  ELSE IF op \in {"Functions.Has", "Functions.Contains"}
  THEN [NoResult EXCEPT !.ok = local.ok]
  ELSE IF op = "Functions.Fetch"
  THEN [NoResult EXCEPT !.function = local.function]
  ELSE [NoResult EXCEPT !.function = local.function, !.ok = local.ok]

\* the rest of the lookup works on its locals and returns
Finish(c) ==
  /\ call[c].pc = "read"
  /\ call' = [call EXCEPT ![c].pc = "done"]
  /\ out' = [out EXCEPT ![c] = ResultOf(call[c].op, call[c])]
  /\ UNCHANGED <<runner, ret, disk>>

\* the caller has taken the result
Take(c) ==
  /\ call[c].pc = "done"
  /\ call' = [call EXCEPT ![c] = NoLookup]
  /\ out' = [out EXCEPT ![c] = NoResult]
  /\ UNCHANGED <<runner, ret, disk>>

NextConcurrent ==
  \/ \E c \in Callers, op \in Lookups, key \in ConcurrentKeys : Invoke(c, op, key)
  \/ \E c \in Callers : ReadMap(c)
  \/ \E c \in Callers : Finish(c)
  \/ \E c \in Callers : Take(c)

SpecConcurrent == InitConcurrent /\ [][NextConcurrent]_vars

(***************************************************************************)
(* The directory walk of Cached, Make, Open and Remove                     *)
(* (src/emojipedia-files/files-subcategories/main.go).  call is the        *)
(* function entered and the file runtime.Caller reports, out the loop's    *)
(* position and its dir.                                                   *)
(***************************************************************************)
root == <<"e","m","o","j","i","p","e","d","i","a">>

\* the index of the last "/" of the path, 0 when it has none
LastSlash(path) ==
  IF \A i \in 1..Len(path) : path[i] # "/"
  THEN 0
  ELSE CHOOSE i \in 1..Len(path) :
         path[i] = "/" /\ \A j \in (i + 1)..Len(path) : path[j] # "/"

\* filepath.Dir on a clean slash-separated path: all but the last element,
\* "." when nothing is left, "/" for the root
Dir(path) ==
  IF LastSlash(path) = 0 THEN <<".">>
  ELSE IF LastSlash(path) = 1 THEN <<"/">>
  ELSE SubSeq(path, 1, LastSlash(path) - 1)

MaxDepth == 3

Components == {<<"e","m","o","j","i","p","e","d","i","a">>, <<"E","m","o","j","i","p","e","d","i","a">>, <<"s","r","c">>, <<"f","i","l","e","s","-","s","u","b","c","a","t","e","g","o","r","i","e","s">>}

\* the absolute directories a source file can be compiled in
SourceDirs ==
  UNION {{<<"/">> \o Join(c, <<"/">>) : c \in [1..n -> Components]} : n \in 1..MaxDepth}

Walkers == {"Cached", "Make", "Open", "Remove"}

InitWalk ==
  /\ runner = x_NewRunner(<<>>).val
  /\ ret = NoRet
  /\ call \in [op : Walkers, file : {d \o <<"/","m","a","i","n",".","g","o">> : d \in SourceDirs}]
  /\ out = [pc |-> "start", dir |-> <<>>, base |-> <<>>]
  /\ disk = NoDisk

\* _, file, _, _ := runtime.Caller(0); dir := filepath.Dir(file)
WalkStart ==
  /\ out.pc = "start"
  /\ out' = [out EXCEPT !.pc = "loop", !.dir = Dir(call.file)]
  /\ UNCHANGED <<runner, ret, call, disk>>

\* base := filepath.Base(dir)
WalkBase ==
  /\ out.pc = "loop"
  /\ out' = [out EXCEPT !.pc = "test", !.base = Base(out.dir)]
  /\ UNCHANGED <<runner, ret, call, disk>>

\* base == root: break; the function goes on to its file under dir
WalkBreak ==
  /\ out.pc = "test"
  /\ out.base = root
  /\ out' = [out EXCEPT !.pc = "found"]
  /\ UNCHANGED <<runner, ret, call, disk>>

\* base != root: dir = filepath.Dir(dir), and round the loop again
WalkUp ==
  /\ out.pc = "test"
  /\ out.base # root
  /\ out' = [out EXCEPT !.pc = "loop", !.dir = Dir(out.dir)]
  /\ UNCHANGED <<runner, ret, call, disk>>

NextWalk ==
  \/ WalkStart
  \/ WalkBase
  \/ WalkBreak
  \/ WalkUp

\* the goroutine keeps running: a step that can be taken is taken
SpecWalk == InitWalk /\ [][NextWalk]_vars /\ WF_vars(NextWalk)

(***************************************************************************)
(* The stored files of package emojipedia (src/emojipedia/main.go).        *)
(* disk is the file system: the directories that exist and the files with  *)
(* their bytes; ret is the last call and what it returned.                 *)
(***************************************************************************)
CategorizationKey == <<"c","a","t","e","g","o","r","i","z","a","t","i","o","n">>

EncyclopediaKey == <<"e","n","c","y","c","l","o","p","e","d","i","a">>

KeywordsKey == <<"k","e","y","w","o","r","d","s">>

SubcategorizationKey == <<"s","u","b","c","a","t","e","g","o","r","i","z","a","t","i","o","n">>

UnicodeKey == <<"u","n","i","c","o","d","e">>

CategorizationFile == CategorizationKey \o <<".","j","s","o","n">>

EncyclopediaFile == EncyclopediaKey \o <<".","j","s","o","n">>

KeywordsFile == KeywordsKey \o <<".","j","s","o","n">>

SubcategorizationFile == SubcategorizationKey \o <<".","j","s","o","n">>

UnicodeFile == UnicodeKey \o <<".","h","t","m","l">>

\* the keys of the map files
files ==
  {CategorizationFile, EncyclopediaFile, KeywordsFile, SubcategorizationFile,
   UnicodeFile}

\* filepath.Join of clean, non-empty elements
FilepathJoin(elements) == Join(elements, <<"/">>)

\* _, b, _, _ = runtime.Caller(0): the source file of the package
CallerFile == <<"/","g","o","/","s","r","c","/","e","m","o","j","i","p","e","d","i","a","/","e","m","o","j","i","p","e","d","i","a","/","m","a","i","n",".","g","o">>

Basepath == Dir(CallerFile)

Rootpath == Dir(Basepath)

Storagepath == FilepathJoin(<<Rootpath, <<"e","m","o","j","i","p","e","d","i","a","-","s","t","o","r","a","g","e">>>>)

HasSuffix(s, suffix) ==
  /\ Len(s) >= Len(suffix)
  /\ SubSeq(s, Len(s) - Len(suffix) + 1, Len(s)) = suffix

TrimSuffix(s, suffix) ==
  IF HasSuffix(s, suffix) THEN SubSeq(s, 1, Len(s) - Len(suffix)) ELSE s

HasPrefix(s, prefix) ==
  /\ Len(s) >= Len(prefix)
  /\ SubSeq(s, 1, Len(prefix)) = prefix

\* os.Stat(path) returns no error
Stat(d, path) == path \in d.dirs \/ path \in DOMAIN d.files

\* ioutil.WriteFile(filename, bytes, FileMode): the file is created or
\* replaced when its directory exists and the name is not a directory's;
\* fails stands for the other reasons a write can fail for
WriteFile(d, filename, bytes, fails) ==
  IF fails \/ Dir(filename) \notin d.dirs \/ filename \in d.dirs
  THEN [ok |-> FALSE, disk |-> d]
  ELSE [ok |-> TRUE,
        disk |-> [d EXCEPT !.files =
                    [f \in DOMAIN d.files \cup {filename} |->
                       IF f = filename THEN bytes ELSE d.files[f]]]]

\* os.RemoveAll(path): path and everything below it is gone
RemoveAll(d, path) ==
  [dirs |-> {x \in d.dirs : x # path /\ ~HasPrefix(x, path \o <<"/">>)},
   files |-> [f \in {x \in DOMAIN d.files :
                       x # path /\ ~HasPrefix(x, path \o <<"/">>)} |-> d.files[f]]]

\* os.Mkdir(path, FileMode)
Mkdir(d, path) ==
  IF Dir(path) \notin d.dirs \/ Stat(d, path)
  THEN [ok |-> FALSE, disk |-> d]
  ELSE [ok |-> TRUE, disk |-> [d EXCEPT !.dirs = @ \cup {path}]]

\* json.Marshal of a categorization or subcategorization.  The document
\* types are declared outside the files modelled here: a document is a
\* sequence of names, its JSON the names quoted in brackets.
Marshal(document) ==
  <<"[">> \o Join([i \in 1..Len(document) |-> <<"\"">> \o document[i] \o <<"\"">>], <<",">>)
      \o <<"]">>

\* json.Unmarshal: ok when the bytes are a bracketed list of quoted names
Unmarshal(bytes) ==
  IF Len(bytes) < 2 \/ bytes[1] # "[" \/ bytes[Len(bytes)] # "]"
  THEN [ok |-> FALSE, val |-> <<>>]
  ELSE IF Len(bytes) = 2
  THEN [ok |-> TRUE, val |-> <<>>]
  ELSE LET items == Split(SubSeq(bytes, 2, Len(bytes) - 1), ",")
       IN IF \A i \in 1..Len(items) :
               Len(items[i]) >= 2 /\ items[i][1] = "\""
                 /\ items[i][Len(items[i])] = "\""
          THEN [ok |-> TRUE,
                val |-> [i \in 1..Len(items) |->
                           SubSeq(items[i], 2, Len(items[i]) - 1)]]
          ELSE [ok |-> FALSE, val |-> <<>>]

hasFile(d, name) ==
  Stat(d, Storagepath) /\ Stat(d, FilepathJoin(<<Storagepath, name>>))

HasFile(d, name) ==
  IF name \notin files
  THEN FALSE
  ELSE IF HasSuffix(name, <<".","j","s","o","n">>)
  THEN hasFile(d, FilepathJoin(<<TrimSuffix(name, <<".","j","s","o","n">>), name>>))
  ELSE IF HasSuffix(name, <<".","h","t","m","l">>)
  THEN hasFile(d, FilepathJoin(<<TrimSuffix(name, <<".","h","t","m","l">>), name>>))
  ELSE hasFile(d, name)

HasCategorizationFile(d) == HasFile(d, CategorizationFile)

HasSubcategorizationFile(d) == HasFile(d, SubcategorizationFile)

\* os.Open succeeds on a file and on a directory; ioutil.ReadAll fails on a
\* directory
OpenEmojipediaFile(d, name) ==
  IF name \notin files
  THEN [bytes |-> <<>>, ok |-> FALSE]
  ELSE IF FilepathJoin(<<Storagepath, name>>) \in DOMAIN d.files
  THEN [bytes |-> d.files[FilepathJoin(<<Storagepath, name>>)], ok |-> TRUE]
  ELSE [bytes |-> <<>>, ok |-> FALSE]

\* the body shared by OpenCategorizationFile and OpenSubcategorizationFile
OpenDocument(opened) ==
  IF ~opened.ok
  THEN [val |-> <<>>, ok |-> FALSE]
  ELSE IF ~Unmarshal(opened.bytes).ok
  THEN [val |-> <<>>, ok |-> FALSE]
  ELSE [val |-> Unmarshal(opened.bytes).val, ok |-> TRUE]

OpenCategorizationFile(d) == OpenDocument(OpenEmojipediaFile(d, CategorizationFile))

OpenSubcategorizationFile(d) ==
  OpenDocument(OpenEmojipediaFile(d, SubcategorizationFile))

StoreCategorizationAsJSON(d, categorization, fails) ==
  WriteFile(d, FilepathJoin(<<Storagepath, CategorizationKey, CategorizationFile>>),
            Marshal(categorization), fails)

StoreSubcategorizationAsJSON(d, subcategorization, fails) ==
  WriteFile(d, FilepathJoin(<<Storagepath, SubcategorizationKey,
                              SubcategorizationFile>>),
            Marshal(subcategorization), fails)

\* the body shared by RemoveCategorizationFile and RemoveSubcategorizationFile
RemoveFolder(d, key) ==
  Mkdir(RemoveAll(d, FilepathJoin(<<Storagepath, key>>)),
        FilepathJoin(<<Storagepath, key>>))

RemoveCategorizationFile(d) == RemoveFolder(d, CategorizationKey)

RemoveSubcategorizationFile(d) == RemoveFolder(d, SubcategorizationKey)

\* an emoji is stored under its Name; its JSON is modelled as that of a
\* document of one name
StoreEmojiAsJSON(d, emoji, fails) ==
  WriteFile(d, FilepathJoin(<<Storagepath, EncyclopediaKey, emoji \o <<".","j","s","o","n">>>>),
            Marshal(<<emoji>>), fails)

\* encyclopedia.Each(func(name, emoji) { ok = StoreEmojiAsJSON(emoji) }): the
\* callback runs once per emoji, in the order Each visits them, and assigns
\* the result ok each time; each collects what every call returned
RECURSIVE StoreEncyclopediaLoop(_, _, _, _, _)
StoreEncyclopediaLoop(d, visits, failing, ok, each) ==
  IF Len(visits) = 0
  THEN [ok |-> ok, disk |-> d, each |-> each]
  ELSE StoreEncyclopediaLoop(
         StoreEmojiAsJSON(d, visits[1], visits[1] \in failing).disk,
         Tail(visits), failing,
         StoreEmojiAsJSON(d, visits[1], visits[1] \in failing).ok,
         Append(each, StoreEmojiAsJSON(d, visits[1], visits[1] \in failing).ok))

\* the result ok starts as false, the zero value
StoreEncyclopediaAsJSON(d, visits, failing) ==
  StoreEncyclopediaLoop(d, visits, failing, FALSE, <<>>)

\* the documents stored: categorizations and subcategorizations by the names
\* of their entries
Documents == {<<>>, <<<<"s","m","i","l","e","y","s">>>>, <<<<"s","m","i","l","e","y","s">>, <<"f","o","o","d">>>>}

\* the directories of the storage folder that may exist when the program
\* starts: nothing in the program creates the storage folder itself
StorageDirs ==
  {Storagepath, FilepathJoin(<<Storagepath, CategorizationKey>>),
   FilepathJoin(<<Storagepath, SubcategorizationKey>>),
   FilepathJoin(<<Storagepath, EncyclopediaKey>>)}

\* the names of the emoji an encyclopedia may hold
Emojis == {<<"g","r","i","n","n","i","n","g">>, <<"r","o","c","k","e","t">>}

\* the orders in which Each may visit the emoji of an encyclopedia: every
\* emoji of it once
Visits ==
  {v \in UNION {[1..n -> Emojis] : n \in 0..Cardinality(Emojis)} :
     \A i, j \in 1..Len(v) : i # j => v[i] # v[j]}

InitStore ==
  /\ runner = x_NewRunner(<<>>).val
  /\ call = NoCall
  /\ out = NoOut
  /\ ret = [op |-> "none", ok |-> FALSE, val |-> <<>>]
  /\ disk \in [dirs : {S \in SUBSET StorageDirs : S # {} => Storagepath \in S},
               files : {<<>>}]

DoStoreCategorizationAsJSON(categorization, fails) ==
  \E r \in {StoreCategorizationAsJSON(disk, categorization, fails)} :
     /\ disk' = r.disk
     /\ ret' = [op |-> "StoreCategorizationAsJSON", ok |-> r.ok,
                val |-> categorization]
     /\ UNCHANGED <<runner, call, out>>

DoStoreSubcategorizationAsJSON(subcategorization, fails) ==
  \E r \in {StoreSubcategorizationAsJSON(disk, subcategorization, fails)} :
     /\ disk' = r.disk
     /\ ret' = [op |-> "StoreSubcategorizationAsJSON", ok |-> r.ok,
                val |-> subcategorization]
     /\ UNCHANGED <<runner, call, out>>

DoHasCategorizationFile ==
  /\ ret' = [op |-> "HasCategorizationFile", ok |-> HasCategorizationFile(disk),
             val |-> <<>>]
  /\ UNCHANGED <<runner, call, out, disk>>

DoHasSubcategorizationFile ==
  /\ ret' = [op |-> "HasSubcategorizationFile",
             ok |-> HasSubcategorizationFile(disk), val |-> <<>>]
  /\ UNCHANGED <<runner, call, out, disk>>

DoOpenCategorizationFile ==
  \E r \in {OpenCategorizationFile(disk)} :
     /\ ret' = [op |-> "OpenCategorizationFile", ok |-> r.ok, val |-> r.val]
     /\ UNCHANGED <<runner, call, out, disk>>

DoOpenSubcategorizationFile ==
  \E r \in {OpenSubcategorizationFile(disk)} :
     /\ ret' = [op |-> "OpenSubcategorizationFile", ok |-> r.ok, val |-> r.val]
     /\ UNCHANGED <<runner, call, out, disk>>

DoRemoveCategorizationFile ==
  \E r \in {RemoveCategorizationFile(disk)} :
     /\ disk' = r.disk
     /\ ret' = [op |-> "RemoveCategorizationFile", ok |-> r.ok, val |-> <<>>]
     /\ UNCHANGED <<runner, call, out>>

DoRemoveSubcategorizationFile ==
  \E r \in {RemoveSubcategorizationFile(disk)} :
     /\ disk' = r.disk
     /\ ret' = [op |-> "RemoveSubcategorizationFile", ok |-> r.ok, val |-> <<>>]
     /\ UNCHANGED <<runner, call, out>>

\* failing is the set of emoji whose write fails for a reason of its own
DoStoreEncyclopediaAsJSON(visits, failing) ==
  \E r \in {StoreEncyclopediaAsJSON(disk, visits, failing)} :
     /\ disk' = r.disk
     /\ ret' = [op |-> "StoreEncyclopediaAsJSON", ok |-> r.ok,
                val |-> [visits |-> visits, each |-> r.each]]
     /\ UNCHANGED <<runner, call, out>>

NextStore ==
  \/ \E visits \in Visits, failing \in SUBSET Emojis :
       DoStoreEncyclopediaAsJSON(visits, failing)
  \/ \E c \in Documents, fails \in BOOLEAN : DoStoreCategorizationAsJSON(c, fails)
  \/ \E c \in Documents, fails \in BOOLEAN : DoStoreSubcategorizationAsJSON(c, fails)
  \/ DoHasCategorizationFile
  \/ DoHasSubcategorizationFile
  \/ DoOpenCategorizationFile
  \/ DoOpenSubcategorizationFile
  \/ DoRemoveCategorizationFile
  \/ DoRemoveSubcategorizationFile

SpecStore == InitStore /\ [][NextStore]_vars

(***************************************************************************)
(* Package cli: each function applied to an input drawn at the start       *)
(***************************************************************************)
CliCalls ==
  [op : {"NewProgram"}, name : Names, description : Descriptions,
   functions : FunctionSeqs]
    \cup [op : {"WrapDescription"}, paragraph : Paragraphs]
    \cup [op : {"NewFunction"}, fn : Pointers]
    \cup [op : {"WrapFunction"}, name : Names,
          functions : {f \in FunctionSeqs :
                         \A i \in 1..Len(f) : ~cli_Function[f[i]].panic}]

InitCli ==
  /\ runner = x_NewRunner(<<>>).val
  /\ ret = NoRet
  /\ call \in CliCalls
  /\ out = NoOut
  /\ disk = NoDisk

DoNewProgram ==
  /\ call.op = "NewProgram"
  /\ ~out.done
  /\ \E r \in {cli_NewProgram(call.name, call.description, call.functions)} :
       out' = [done |-> TRUE, panic |-> r.panic, val |-> r.val]
  /\ UNCHANGED <<runner, ret, call, disk>>

DoWrapDescription ==
  /\ call.op = "WrapDescription"
  /\ ~out.done
  /\ out' = [done |-> TRUE, panic |-> FALSE, val |-> WrapDescription(call.paragraph)]
  /\ UNCHANGED <<runner, ret, call, disk>>

DoWrapFunction ==
  /\ call.op = "WrapFunction"
  /\ ~out.done
  /\ out' = [done |-> TRUE, panic |-> FALSE,
             val |-> WrapFunction(call.name,
                                  [i \in 1..Len(call.functions) |->
                                     cli_Function[call.functions[i]].val])]
  /\ UNCHANGED <<runner, ret, call, disk>>

\* the same function value handed to NewFunction of package x and of
\* package cli
DoNewFunction ==
  /\ call.op = "NewFunction"
  /\ ~out.done
  /\ out' = [done |-> TRUE,
             panic |-> x_Function[call.fn].panic \/ cli_Function[call.fn].panic,
             val |-> [x |-> x_Function[call.fn], cli |-> cli_Function[call.fn]]]
  /\ UNCHANGED <<runner, ret, call, disk>>

NextCli ==
  \/ DoNewProgram
  \/ DoNewFunction
  \/ DoWrapDescription
  \/ DoWrapFunction

SpecCli == InitCli /\ [][NextCli]_vars

(***************************************************************************)
(* Properties                                                              *)
(***************************************************************************)
Range(m) == {m[k] : k \in DOMAIN m}

\* equal up to letter case
SameName(a, b) ==
  /\ Len(a) = Len(b)
  /\ \A i \in 1..Len(a) : ToLowerChar(a[i]) = ToLowerChar(b[i])

Registered(key) == \E e \in Range(runner.Functions) : SameName(e.Name, key)

\* the parameter list is exactly one variadic interface{} slot
HasGateShape(f) == Decls[f].types = <<tAny>> /\ Decls[f].variadic

\* C1 (dispatch gate): Runner.Get of a registered name whose function's
\* parameter list is not exactly one variadic interface{} slot returns
\* ok = false and no callable.
C1_DispatchGate ==
  ret.op = "Runner.Get" =>
    \A e \in Range(runner.Functions) :
      (SameName(e.Name, ret.key) /\ ~HasGateShape(e.F)) =>
        (ret.ok = FALSE /\ ret.f = 0)

\* C2 (dispatch success): Runner.Get of a registered name whose function's only
\* parameter is a variadic interface{} slot returns ok = true and that function.
C2_DispatchSuccess ==
  ret.op = "Runner.Get" =>
    \A e \in Range(runner.Functions) :
      (SameName(e.Name, ret.key) /\ HasGateShape(e.F)) =>
        (ret.ok = TRUE /\ ret.f = e.F)

\* C3 (descriptor shape): every registered descriptor has Length equal to the
\* number of its arguments, positions 0, 1, 2, ... in order, and, when the
\* function is variadic, the variadic flag on the last argument and on no other.
C3_DescriptorShape ==
  \A e \in Range(runner.Functions) :
    /\ e.Length = Len(e.Arguments)
    /\ \A i \in 1..Len(e.Arguments) :
         /\ e.Arguments[i].Position = i - 1
         /\ e.Variadic => (e.Arguments[i].Variadic <=> (i = Len(e.Arguments)))

IsSet == ret.op \in {"Runner.Set", "Functions.Set"}

\* the name package x gives the function value f
x_NameOf(f) == x_Function[f].val.Name

\* no later function of the sequence has the name of the i-th, up to case
IsLastOfName(fs, i) ==
  \A j \in (i + 1)..Len(fs) : ~SameName(x_NameOf(fs[j]), x_NameOf(fs[i]))

\* C4 (last write wins): after NewFunctions is given a sequence of functions the
\* registry holds at most one entry per name up to case, and its entries are
\* exactly the descriptors of the functions that are the last of their name in
\* the sequence.
C4_LastWriteWins ==
  IsSet =>
    /\ \A a, b \in Range(runner.Functions) : SameName(a.Name, b.Name) => a = b
    /\ Range(runner.Functions) =
         {x_Function[ret.args[i]].val :
            i \in {k \in 1..Len(ret.args) : IsLastOfName(ret.args, k)}}
    /\ \A i \in 1..Len(ret.args) :
         \E e \in Range(runner.Functions) :
           /\ SameName(e.Name, x_NameOf(ret.args[i]))
           /\ IsLastOfName(ret.args, i) => e.F = ret.args[i]

\* two different functions of one name were registered and the later one stayed
C4_Witness ==
  /\ IsSet
  /\ \E i, j \in 1..Len(ret.args) :
       /\ i < j
       /\ ret.args[i] # ret.args[j]
       /\ SameName(x_NameOf(ret.args[i]), x_NameOf(ret.args[j]))
       /\ IsLastOfName(ret.args, j)
       /\ \E e \in Range(runner.Functions) : e.F = ret.args[j]

\* a substring test
Occurs(t, line) ==
  \E i \in 0..(Len(line) - Len(t)) : SubSeq(line, i + 1, i + Len(t)) = t

\* the words of the description and the option strings of the functions
UsageTokens(p) ==
  {w \in Range(Split(p.Description, " ")) : TRUE}
    \cup {<<"[">> \o GetFunctionString(p.Functions[i]) \o <<"]">> : i \in 1..Len(p.Functions)}

\* a line is excused when it holds a token that alone is longer than the budget
\* (this excuses more lines than "consists of a single token" does)
ExcusedLine(line, p) ==
  \E t \in UsageTokens(p) : Len(t) > lineLength /\ Occurs(t, line)

\* C5 (usage line length): every line of Program.Use is at most 79 characters
\* long, except a line holding a single token that is itself longer.
C5_UsageLineLength ==
  (call.op = "NewProgram" /\ out.done /\ ~out.panic) =>
    \A line \in Range(Split(out.val.Use, "\n")) :
      Len(line) <= lineLength \/ ExcusedLine(line, out.val)

\* C6 (normalization idempotent): the display name of every descriptor of a
\* Program is a fixed point of the normalization that produced it.
C6_NormalizeIdempotent ==
  (call.op = "NewProgram" /\ out.done /\ ~out.panic) =>
    \A i \in 1..Len(out.val.Functions) :
      cli_Name(out.val.Functions[i].Name) = out.val.Functions[i].Name

\* the comma segments of the parameter list on the function's source line
Segments(f) ==
  IF FindSubmatch(Decls[f].text).found
  THEN Split(FindSubmatch(Decls[f].text).group, ",")
  ELSE <<>>

\* the declaration names each reflected parameter on its one source line
OneLine(f) == NumIn(f) > 0 /\ Len(Segments(f)) = NumIn(f)

\* the first whitespace-delimited token
FirstToken(segment) ==
  SubSeq(TrimSpace(segment), 1,
         IF Index(TrimSpace(segment), " ") = -1
         THEN Len(TrimSpace(segment))
         ELSE Index(TrimSpace(segment), " "))

\* C7 (parameter names): for a function declared on one line, the i-th argument
\* of its registered descriptor is named by the first whitespace-delimited
\* token of the i-th comma segment, for every i.
C7_ParameterNames ==
  \A e \in Range(runner.Functions) :
    OneLine(e.F) =>
      /\ Len(e.Arguments) = NumIn(e.F)
      /\ \A i \in 1..Len(e.Arguments) :
           e.Arguments[i].Name = FirstToken(Segments(e.F)[i])

\* C8 (zero-argument functions): registering functions that take no parameters
\* succeeds whatever their result lists look like, and each is registered with
\* an empty argument list.
C8_ZeroArgument ==
  (/\ ret.op \in {"Runner.Set", "Functions.Set", "panic"}
   /\ ret.args # <<>>
   /\ \A i \in 1..Len(ret.args) :
        Decls[ret.args[i]].readable /\ NumIn(ret.args[i]) = 0) =>
    /\ ret.op # "panic"
    /\ \A i \in 1..Len(ret.args) :
         \E e \in Range(runner.Functions) :
           e.F = ret.args[i] /\ e.Empty /\ e.Arguments = <<>>

\* C9 (parameter count consistency): NewProgram either is rejected or gives
\* every function a descriptor whose arguments are the declared parameters, in
\* number and in name: none is truncated, padded or wrongly named.
C9_CountMismatchRejected ==
  (call.op = "NewProgram" /\ out.done /\ ~out.panic) =>
    \A i \in 1..Len(out.val.Functions) :
      [k \in 1..Len(out.val.Functions[i].Arguments) |->
         out.val.Functions[i].Arguments[k].Name]
        = Decls[out.val.Functions[i].F].params

\* C10 (lookup by name up to case): Get and Has find exactly the names that
\* are registered up to letter case, Get returns the entry of that name or
\* (nil, false), and Contains depends on the descriptor's name alone.
C10_LookupByName ==
  /\ ret.op = "Functions.Get" =>
       /\ ret.ok = Registered(ret.key)
       /\ ret.ok => (ret.function \in Range(runner.Functions)
                     /\ SameName(ret.function.Name, ret.key))
       /\ ~ret.ok => ret.function = NilFunction
  /\ ret.op = "Functions.Has" => ret.ok = Registered(ret.key)
  /\ ret.op = "Functions.Contains" => ret.ok = Registered(ret.arg.Name)

\* Get found an entry under a key spelled in another case than its name
C10_Witness ==
  /\ ret.op = "Functions.Get"
  /\ ret.ok
  /\ ret.key # ret.function.Name
  /\ SameName(ret.key, ret.function.Name)

\* the token the rendering rules give the argument at position i (from 1) of
\* function fn: only the last parameter of a variadic function is the
\* variadic slot
ExpectedToken(fn, i, argument) ==
  IF Decls[fn].variadic /\ i = NumIn(fn)
  THEN argument.Name \o <<" ","[",".",".",".">> \o argument.Value \o <<"]">>
  ELSE IF Decls[fn].types[i].kind = "slice"
  THEN argument.Name \o <<"=","[",".",".",".">> \o argument.Value \o <<"]">>
  ELSE argument.Name \o <<"=","<">> \o argument.Value \o <<">">>

\* C11 (option token rendering): GetArgumentString renders the variadic slot
\* as `name [...type]`, a non-variadic slice as `name=[...type]` and anything
\* else, a scalar before the variadic slot included, as `name=<type>`.
C11_OptionToken ==
  (call.op = "NewProgram" /\ out.done /\ ~out.panic) =>
    \A i \in 1..Len(out.val.Functions) :
      \A k \in 1..Len(out.val.Functions[i].Arguments) :
        GetArgumentString(out.val.Functions[i].Arguments[k])
          = ExpectedToken(out.val.Functions[i].F, k,
                          out.val.Functions[i].Arguments[k])

\* the number of spaces a line starts with
LeadingSpaces(line) ==
  IF \A j \in 1..Len(line) : line[j] = " "
  THEN Len(line)
  ELSE (CHOOSE j \in 1..Len(line) :
          line[j] # " " /\ \A h \in 1..(j - 1) : line[h] = " ") - 1

\* the lines of the option block after its first
ContinuationLines(block) == Tail(Split(block, "\n"))

\* C12 as stated (hanging indentation): every continuation line of the option
\* block is indented with exactly len("usage: <programName>") spaces.
C12_IndentIsOffset ==
  (call.op = "WrapFunction" /\ out.done) =>
    \A k \in 1..Len(ContinuationLines(out.val)) :
      LeadingSpaces(ContinuationLines(out.val)[k]) = Len(<<"u","s","a","g","e",":"," ">> \o call.name)

\* C12 amended (hanging indentation): every continuation line of the option
\* block is indented with exactly len("usage: <programName>") + 1 spaces, and
\* an option follows the indentation.
C12_IndentIsOffsetPlusOne ==
  (call.op = "WrapFunction" /\ out.done) =>
    \A k \in 1..Len(ContinuationLines(out.val)) :
      /\ LeadingSpaces(ContinuationLines(out.val)[k])
           = Len(<<"u","s","a","g","e",":"," ">> \o call.name) + 1
      /\ Len(ContinuationLines(out.val)[k]) > Len(<<"u","s","a","g","e",":"," ">> \o call.name) + 1

\* an option block of two lines whose first line holds an option
C12_Witness ==
  /\ call.op = "WrapFunction"
  /\ out.done
  /\ Len(ContinuationLines(out.val)) = 1
  /\ Len(Split(out.val, "\n")[1]) > Len(<<"u","s","a","g","e",":"," ">> \o call.name) + 2

\* the counter after each word: len(word) + 1 added to the counter before it,
\* which is 0 at the start and after every break
WordCounter(words) ==
  LET c[k \in 0..Len(words)] ==
        IF k = 0
        THEN 0
        ELSE (IF c[k - 1] >= 79 THEN 0 ELSE c[k - 1]) + Len(words[k]) + 1
  IN c

Separators(offset) ==
  {<<" ">>} \cup {<<"\n">> \o [j \in 1..n |-> " "] : n \in 0..(offset + 2)}

\* the texts made of the options in order, one separator between neighbours
RECURSIVE Blocks(_, _)
Blocks(options, offset) ==
  IF Len(options) = 0
  THEN {<<>>}
  ELSE IF Len(options) = 1
  THEN {options[1]}
  ELSE {options[1] \o sep \o rest :
          sep \in Separators(offset), rest \in Blocks(Tail(options), offset)}

\* the bracketed option strings of the functions of the call
CallOptions ==
  [i \in 1..Len(call.functions) |->
     <<"[">> \o GetFunctionString(cli_Function[call.functions[i]].val) \o <<"]">>]

\* C14 (option block structure): the block is `usage: <programName> [`, then
\* each function's bracketed option string once, whole and in order, with
\* only a space or a line break plus indentation between them (a line break
\* may precede the first), then `]`.
C14_OptionBlock ==
  (call.op = "WrapFunction" /\ out.done) =>
    \E lead \in {<<>>} \cup (Separators(Len(<<"u","s","a","g","e",":"," ">> \o call.name)) \ {<<" ">>}) :
      \E body \in Blocks(CallOptions, Len(<<"u","s","a","g","e",":"," ">> \o call.name)) :
        out.val = <<"u","s","a","g","e",":"," ">> \o call.name \o <<" ","[">> \o lead \o body \o <<"]">>

\* two options, the second on a line of its own
C14_Witness ==
  /\ call.op = "WrapFunction"
  /\ out.done
  /\ Len(call.functions) = 2
  /\ call.functions[1] # call.functions[2]
  /\ Len(Split(out.val, "\n")) = 2

\* C15 (registration frame): a Runner.Set or Functions.Set on a registry that
\* has entries only inserts or replaces the entries of the functions supplied:
\* every name registered before the call is still found by Get after it.
C15_RegistrationFrame ==
  [][(ret'.op \in {"Runner.Set", "Functions.Set"} /\ Len(ret'.args) > 0) =>
       \A k \in DOMAIN runner.Functions :
         Functions_Get(runner'.Functions, runner.Functions[k].Name).ok]_vars

\* the result of the lookup when it runs alone on registry r
AloneResult(r, op, key) ==
  IF op = "Runner.Get"
  THEN [NoResult EXCEPT !.f = Runner_Get(r, key).f,
                        !.ok = Runner_Get(r, key).ok,
                        !.panic = Runner_Get(r, key).panic]
  ELSE IF op = "Functions.Has"
  THEN [NoResult EXCEPT !.ok = Functions_Has(r.Functions, key)]
  ELSE IF op = "Functions.Contains"
  THEN [NoResult EXCEPT !.ok = Functions_Contains(r.Functions, BareFunction(key))]
  ELSE IF op = "Functions.Fetch"
  THEN [NoResult EXCEPT !.function = Functions_Fetch(r.Functions, key)]
  ELSE [NoResult EXCEPT !.function = Functions_Get(r.Functions, key).function,
                        !.ok = Functions_Get(r.Functions, key).ok]

\* C16 (read-only lookups under concurrency): in every interleaving of
\* lookups by several callers the registry and its descriptors stay as
\* construction left them, and every finished lookup has the result it has
\* when it runs alone.
C16_ReadOnlyLookups ==
  /\ runner = ret.registry
  /\ \A c \in Callers :
       call[c].pc = "done" =>
         out[c] = AloneResult(ret.registry, call[c].op, call[c].key)

\* two lookups of the same entry in flight at once: one has read the map and
\* not returned, the other has returned with the entry
C16_Witness ==
  /\ call[1].pc = "read"
  /\ call[1].op = "Runner.Get"
  /\ call[1].ok
  /\ call[2].pc = "done"
  /\ call[2].op = "Functions.Get"
  /\ out[2].ok
  /\ call[1].key = call[2].key

\* C17 (one design, two implementations): x.NewFunction and cli.NewFunction
\* describe a function alike: both fail or both succeed, with the same display
\* name, the same number of arguments and, position by position, the same
\* argument name, display value, slice flag and variadic flag.
C17_SameDescriptor ==
  (call.op = "NewFunction" /\ out.done) =>
    /\ out.val.x.panic = out.val.cli.panic
    /\ ~out.val.x.panic =>
         /\ out.val.x.val.Name = out.val.cli.val.Name
         /\ Len(out.val.x.val.Arguments) = Len(out.val.cli.val.Arguments)
         /\ \A k \in 1..Len(out.val.x.val.Arguments) :
              /\ out.val.x.val.Arguments[k].Name = out.val.cli.val.Arguments[k].Name
              /\ out.val.x.val.Arguments[k].Value = out.val.cli.val.Arguments[k].Value
              /\ out.val.x.val.Arguments[k].Slice = out.val.cli.val.Arguments[k].Slice
              /\ out.val.x.val.Arguments[k].Variadic
                   = out.val.cli.val.Arguments[k].Varadict

\* the options each line of the block holds: what is left of a line once the
\* prefix `usage: <programName> [` or the indentation, the closing `]` and
\* spaces are taken away
LineIsEmpty(line, k) ==
  IF k = 1
  THEN \A j \in (Len(<<"u","s","a","g","e",":"," ">> \o call.name \o <<" ","[">>) + 1)..Len(line) :
         line[j] \in {" ", "]"}
  ELSE \A j \in 1..Len(line) : line[j] \in {" ", "]"}

\* C18 (no empty option line): unless the descriptor list is empty, no line of
\* the option block is left without an option; in particular the first line
\* `usage: <programName> [` always holds one.
C18_NoEmptyLine ==
  (call.op = "WrapFunction" /\ out.done /\ Len(call.functions) > 0) =>
    \A k \in 1..Len(Split(out.val, "\n")) :
      ~LineIsEmpty(Split(out.val, "\n")[k], k)

\* C19 (the walk terminates): from every source-file directory the loop of
\* Cached, Make, Open and Remove comes to its break, also when no ancestor
\* directory is named emojipedia.
C19_WalkTerminates == <>(out.pc = "found")

\* C20 (store/open round trip): when StoreCategorizationAsJSON (resp.
\* StoreSubcategorizationAsJSON) has returned true, the matching Has function
\* is true and the matching Open function returns ok with the stored content.
C20_StoreOpenRoundTrip ==
  /\ (ret.op = "StoreCategorizationAsJSON" /\ ret.ok) =>
       /\ HasCategorizationFile(disk)
       /\ OpenCategorizationFile(disk) = [val |-> ret.val, ok |-> TRUE]
  /\ (ret.op = "StoreSubcategorizationAsJSON" /\ ret.ok) =>
       /\ HasSubcategorizationFile(disk)
       /\ OpenSubcategorizationFile(disk) = [val |-> ret.val, ok |-> TRUE]

\* C21 (all emoji stored): StoreEncyclopediaAsJSON returns true exactly when
\* StoreEmojiAsJSON succeeded for every emoji of the encyclopedia; with no
\* emoji it returns true.
C21_StoreEncyclopediaAll ==
  (ret.op = "StoreEncyclopediaAsJSON") =>
    (ret.ok <=> \A i \in 1..Len(ret.val.each) : ret.val.each[i])

\* the text with its line-break characters deleted
WithoutBreaks(text) == SelectSeq(text, LAMBDA c : c # "\n")

\* C22 (content preserved): WrapDescription(paragraph) with the line breaks
\* deleted is the paragraph followed by one space: no word is dropped,
\* duplicated, reordered or split.
C22_ContentPreserved ==
  (call.op = "WrapDescription" /\ out.done) =>
    WithoutBreaks(out.val) = call.paragraph \o <<" ">>

\* a paragraph of several words, one of them longer than a line, wrapped
\* with a break before its end
C22_Witness ==
  /\ call.op = "WrapDescription"
  /\ out.done
  /\ Len(Split(call.paragraph, " ")) >= 2
  /\ \E i \in 1..(Len(out.val) - 1) : out.val[i] = "\n"
  /\ \E w \in Range(Split(call.paragraph, " ")) : Len(w) > lineLength
  /\ \E w \in Range(Split(call.paragraph, " ")) : Len(w) = 0

====
